---- MODULE Spec2Model ----
(***************************************************************************)
(* Model of the vote ingestion and outlier-week calculation of the         *)
(* equalexperts_dataeng_exercise package: ingest_votes (ingest.py) and     *)
(* calculate_outliers (outliers.py), together with the part of the         *)
(* embedded SQL store that their statements act on: the blog_analysis      *)
(* schema, the votes table, the outlier_weeks view and the connection.     *)
(***************************************************************************)
EXTENDS Integers, Sequences, FiniteSets, Bags, TLC

(***************************************************************************)
(* Bounds of the model.                                                    *)
(***************************************************************************)
\* Vote Ids that lines of the source file carry: 1..MaxId.
MaxId == 2
\* Longest source file, in lines.
MaxFileLen == 2
\* SpecOutliers starts from tables whose weekly buckets hold no vote or
\* MaxWeekVotes - WeekWindow .. MaxWeekVotes votes.
MaxWeekVotes == 22
WeekWindow == 6
\* SpecYearEnds starts from tables that hold up to MaxDayVotes votes on each
\* of the days of YearEndDays.
MaxDayVotes == 2

(***************************************************************************)
(* IEEE-754 binary64 arithmetic, as far as the view's WHERE clause uses it.*)
(* The row count is a BIGINT and AVG a DOUBLE, so VoteCount / MeanVotes,   *)
(* 1 - (...), ABS and the comparison with 0.2 are all DOUBLE operations.   *)
(* A significand is three 18-bit limbs <<h, m, l>> that stand for          *)
(* h * 2^36 + m * 2^18 + l.  A positive double is a record [m, e] that     *)
(* stands for m * 2^e, with 2^52 <= m < 2^53.                              *)
(***************************************************************************)
LimbBase == 262144

\* Carry (or borrow) from the low limbs upwards.
Norm3(x) ==
    LET mid == x[2] + x[3] \div LimbBase
    IN  <<x[1] + mid \div LimbBase, mid % LimbBase, x[3] % LimbBase>>

Geq3(x, y) ==
    \/ x[1] > y[1]
    \/ x[1] = y[1] /\ x[2] > y[2]
    \/ x[1] = y[1] /\ x[2] = y[2] /\ x[3] >= y[3]

\* x - y for x >= y.
Sub3(x, y) == Norm3(<<x[1] - y[1], x[2] - y[2], x[3] - y[3]>>)

\* x * k for 0 <= k <= 8192 and x < 2^53.
Mul3(x, k) == Norm3(<<x[1] * k, x[2] * k, x[3] * k>>)

\* 2^52 and 2^53: the least significand of a double and the first too large.
TwoTo52 == <<65536, 0, 0>>
TwoTo53 == <<131072, 0, 0>>

\* The literal 0.2 as a double: 0x1.999999999999Ap-3 = 7205759403792794 * 2^-55.
PointTwo == [m |-> <<104857, 157286, 104858>>, e |-> -55]

\* An integer count 1 <= n < 2^17 cast to DOUBLE (exactly).
DoubleOf(n) ==
    LET k == CHOOSE j \in 0..16 : 2^j <= n /\ n < 2^(j + 1)
    IN  [m |-> <<n * 2^(16 - k), 0, 0>>, e |-> k - 52]

\* One step of long division in base 2^13: st is <<quotient so far,
\* remainder>> with remainder < b and 2^52 <= b < 2^53.  The digit is
\* estimated from the high limbs; the estimate is the digit or one more.
DivStep(st, b) ==
    LET r   == Mul3(st[2], 8192)
        est == IF r[1] \div b[1] > 8191 THEN 8191 ELSE r[1] \div b[1]
        d   == IF Geq3(r, Mul3(b, est)) THEN est ELSE est - 1
        q   == Mul3(st[1], 8192)
    IN  <<<<q[1], q[2], q[3] + d>>, Sub3(r, Mul3(b, d))>>

\* i steps of long division.
RECURSIVE LongDiv(_, _, _)
LongDiv(st, b, i) == IF i = 0 THEN st ELSE LongDiv(DivStep(st, b), b, i - 1)

\* x / y for positive doubles, rounded to nearest, ties to even.  The
\* quotient of the significands lies in (1/2, 2): its leading bit and four
\* base-2^13 digits are the 53 bits, the remainder decides the rounding.
DoubleDiv(x, y) ==
    LET ge == Geq3(x.m, y.m)
        r0 == IF ge THEN Sub3(x.m, y.m) ELSE Sub3(Mul3(x.m, 2), y.m)
        qr == LongDiv(<<<<0, 0, 1>>, r0>>, y.m, 4)
        q  == qr[1]
        r2 == Mul3(qr[2], 2)
        roundUp == IF r2 = y.m THEN q[3] % 2 = 1 ELSE Geq3(r2, y.m)
        q1 == Norm3(<<q[1], q[2], q[3] + 1>>)
        e  == x.e - y.e - 52 - (IF ge THEN 0 ELSE 1)
    IN  IF ~roundUp THEN [m |-> q, e |-> e]
        ELSE IF q1 = TwoTo53 THEN [m |-> TwoTo52, e |-> e + 1]
        ELSE [m |-> q1, e |-> e]

\* ABS(1 - q) > lim for a positive double q and lim = 0.2.  For
\* 1/2 <= q < 2 the subtraction 1 - q is exact; below 1/2 the difference
\* rounds to at least 1/2 and from 2 on to at least 1, both greater than 0.2.
AbsOneMinusExceeds(q, lim) ==
    LET diff   == IF q.e = -52 THEN Sub3(q.m, TwoTo52) ELSE Sub3(TwoTo53, q.m)
        scaled == Mul3(diff, 2^(q.e - lim.e))
    IN  IF q.e \in {-52, -53}
        THEN Geq3(scaled, lim.m) /\ scaled # lim.m
        ELSE TRUE

(***************************************************************************)
(* Dates.  A line of the source file carries CreationDate as an ISO-8601    *)
(* string, here its date part <<year, month, day>>; the votes table holds   *)
(* a TIMESTAMP, here the number of whole days since 1970-01-01 (every       *)
(* timestamp of the model is a midnight, and neither the year nor the       *)
(* week of a timestamp depends on its time of day).                         *)
(***************************************************************************)
IsLeap(y) == (y % 4 = 0 /\ y % 100 # 0) \/ y % 400 = 0

DaysInMonth(y, m) ==
    IF m = 2 THEN (IF IsLeap(y) THEN 29 ELSE 28)
    ELSE IF m \in {4, 6, 9, 11} THEN 30 ELSE 31

\* Whether CreationDate::TIMESTAMP succeeds: the string names a day that exists.
ValidDate(ymd) ==
    /\ ymd[2] \in 1..12
    /\ ymd[3] >= 1
    /\ ymd[3] <= DaysInMonth(ymd[1], ymd[2])

\* CreationDate::TIMESTAMP: the day number of a civil date.
DaysFromCivil(ymd) ==
    LET y   == IF ymd[2] <= 2 THEN ymd[1] - 1 ELSE ymd[1]
        era == y \div 400
        yoe == y - era * 400
        mp  == IF ymd[2] > 2 THEN ymd[2] - 3 ELSE ymd[2] + 9
        doy == (153 * mp + 2) \div 5 + ymd[3] - 1
        doe == yoe * 365 + yoe \div 4 - yoe \div 100 + doy
    IN  era * 146097 + doe - 719468

\* EXTRACT(YEAR FROM ts): the calendar year of a day number.
ExtractYear(ts) ==
    LET z   == ts + 719468
        era == z \div 146097
        doe == z - era * 146097
        yoe == (doe - doe \div 1460 + doe \div 36524 - doe \div 146096) \div 365
        doy == doe - (365 * yoe + yoe \div 4 - yoe \div 100)
        mp  == (5 * doy + 2) \div 153
    IN  yoe + era * 400 + (IF mp < 10 THEN 0 ELSE 1)

\* EXTRACT(WEEK FROM ts): the ISO-8601 week number, the week of the year
\* that holds the Thursday of the timestamp's Monday-to-Sunday week.
ExtractWeek(ts) ==
    LET weekday  == (ts + 3) % 7
        thursday == ts - weekday + 3
        jan1     == DaysFromCivil(<<ExtractYear(thursday), 1, 1>>)
    IN  (thursday - jan1) \div 7 + 1

(***************************************************************************)
(* The source file and the votes table.                                    *)
(***************************************************************************)
\* The lines a fetch can bring.  FirstLines: one vote per Id, cast on
\* 2022-01-01 (ISO week 52 of 2021), as in the test fixtures.
FirstLines ==
    {[Id |-> i, PostId |-> 1, VoteTypeId |-> 2, CreationDate |-> <<2022, 1, 1>>] :
        i \in 1..MaxId}

\* The vote of Id 1 as a later fetch carries it: another post, another
\* vote type, another week (2022-01-08, ISO week 1 of 2022).
RevisedLine == [Id |-> 1, PostId |-> 5, VoteTypeId |-> 3, CreationDate |-> <<2022, 1, 8>>]

\* A line whose CreationDate names no day: its cast to TIMESTAMP fails.
BadLine == [Id |-> 1, PostId |-> 1, VoteTypeId |-> 2, CreationDate |-> <<2022, 13, 1>>]

Lines == FirstLines \cup {RevisedLine, BadLine}

\* SELECT Id::INTEGER, PostId::INTEGER, VoteTypeId::INTEGER, CreationDate::TIMESTAMP
CastLine(line) ==
    [Id |-> line.Id, PostId |-> line.PostId, VoteTypeId |-> line.VoteTypeId,
     CreationDate |-> DaysFromCivil(line.CreationDate)]

\* Whether the SELECT over the file succeeds: every line casts.
FileCasts(lines) == \A i \in 1..Len(lines) : ValidDate(lines[i].CreationDate)

\* SELECT COUNT(*) over a table (a bag of rows).
RowCount(table) == BagCardinality(table)

\* Whether the primary key Id already has a row in the table.
HasId(table, id) == \E r \in BagToSet(table) : r.Id = id

\* Variant: INSERT OR REPLACE, a row whose Id is present takes its place.
RECURSIVE InsertOrReplace(_, _)
InsertOrReplace(acc, lines) ==
    IF lines = <<>> THEN acc
    ELSE LET row  == CastLine(Head(lines))
             kept == {r \in BagToSet(acc.table) : r.Id # row.Id}
         IN  InsertOrReplace(
                 [table |-> [r \in kept |-> acc.table[r]] (+) SetToBag({row}),
                  count |-> acc.count + 1],
                 Tail(lines))

\* Variant: a plain INSERT into a table without the primary key.
RECURSIVE InsertDuplicating(_, _)
InsertDuplicating(acc, lines) ==
    IF lines = <<>> THEN acc
    ELSE InsertDuplicating(
             [table |-> acc.table (+) SetToBag({CastLine(Head(lines))}),
              count |-> acc.count + 1],
             Tail(lines))

\* Variant: the statement returns the number of rows it was given.
RECURSIVE InsertCountingAll(_, _)
InsertCountingAll(acc, lines) ==
    IF lines = <<>> THEN acc
    ELSE LET row == CastLine(Head(lines))
         IN  InsertCountingAll(
                 [table |-> IF HasId(acc.table, row.Id) THEN acc.table
                            ELSE acc.table (+) SetToBag({row}),
                  count |-> acc.count + 1],
                 Tail(lines))

\* INSERT INTO votes SELECT ... ON CONFLICT (Id) DO NOTHING, row by row in
\* file order: a row whose Id is present (stored before, or inserted earlier
\* by this statement) is skipped.  acc is [table, count], count the rows
\* inserted so far, which the statement returns as its single result row.
RECURSIVE InsertOnConflictDoNothing(_, _)
InsertOnConflictDoNothing(acc, lines) ==
    IF lines = <<>> THEN acc
    ELSE LET row == CastLine(Head(lines))
         IN  IF HasId(acc.table, row.Id)
             THEN InsertOnConflictDoNothing(acc, Tail(lines))
             ELSE InsertOnConflictDoNothing(
                      [table |-> acc.table (+) SetToBag({row}), count |-> acc.count + 1],
                      Tail(lines))

(***************************************************************************)
(* The query of the outlier_weeks view.                                    *)
(***************************************************************************)
WeekKey(row) == <<ExtractYear(row.CreationDate), ExtractWeek(row.CreationDate)>>

\* The rows of a table that fall in one (Year, WeekNumber) group, as a bag.
GroupOf(table, key) ==
    [r \in {x \in BagToSet(table) : WeekKey(x) = key} |-> table[r]]

\* weekly_votes: one row per (Year, WeekNumber) that has a vote, with COUNT(*).
WeeklyVotes(table) ==
    {[Year |-> k[1], WeekNumber |-> k[2], VoteCount |-> RowCount(GroupOf(table, k))] :
        k \in {WeekKey(r) : r \in BagToSet(table)}}

RECURSIVE SumVoteCount(_)
SumVoteCount(weekly) ==
    IF weekly = {} THEN 0
    ELSE LET w == CHOOSE x \in weekly : TRUE
         IN  w.VoteCount + SumVoteCount(weekly \ {w})

\* average_votes: AVG(VoteCount), the sum divided by the number of rows as
\* a DOUBLE; NULL over no rows.
AverageVotes(weekly) ==
    IF weekly = {} THEN [isNull |-> TRUE, m |-> <<0, 0, 0>>, e |-> 0]
    ELSE LET avg == DoubleDiv(DoubleOf(SumVoteCount(weekly)), DoubleOf(Cardinality(weekly)))
         IN  [isNull |-> FALSE, m |-> avg.m, e |-> avg.e]

\* WHERE ABS(1 - (VoteCount / MeanVotes)) > 0.2; a NULL comparison keeps no row.
IsOutlier(w, mean) ==
    /\ ~mean.isNull
    /\ AbsOneMinusExceeds(DoubleDiv(DoubleOf(w.VoteCount), mean), PointTwo)

\* Variant: ORDER BY WeekNumber ASC alone.
RowBeforeByWeek(a, b) == a.WeekNumber <= b.WeekNumber

\* ORDER BY Year ASC, WeekNumber ASC.
RowBefore(a, b) ==
    a.Year < b.Year \/ (a.Year = b.Year /\ a.WeekNumber <= b.WeekNumber)

RECURSIVE OrderByYearWeek(_)
OrderByYearWeek(rows) ==
    IF rows = {} THEN <<>>
    ELSE LET first == CHOOSE x \in rows : \A y \in rows : RowBefore(x, y)
         IN  <<first>> \o OrderByYearWeek(rows \ {first})

\* weekly_votes CROSS JOIN average_votes (one row), filtered and ordered:
\* the rows a SELECT on blog_analysis.outlier_weeks returns.
OutlierWeeksQuery(table) ==
    LET weekly == WeeklyVotes(table)
        mean   == AverageVotes(weekly)
    IN  OrderByYearWeek({w \in weekly : IsOutlier(w, mean)})

(***************************************************************************)
(* State.                                                                  *)
(*   store     warehouse.db: whether the blog_analysis schema, the votes   *)
(*             table and the outlier_weeks view exist, and the rows of     *)
(*             votes (a bag of rows).  The view is a stored query: its     *)
(*             rows are OutlierWeeksQuery of the votes of the moment.      *)
(*   dataFile  uncommitted/votes.jsonl: whether it exists, and its lines.  *)
(*   last      what the call that has just run did: its log records, its   *)
(*             standard output, its connection, how it ended; no call      *)
(*             ("none") once the file has changed since.                   *)
(*   runs      history: how many ingest_votes calls in a row, up to 2,     *)
(*             have run with no store failure on the dataFile of the       *)
(*             moment, with no other call or file change between them.     *)
(***************************************************************************)
VARIABLES store, dataFile, last, runs

vars == <<store, dataFile, last, runs>>

\* A log record: logging.info / logging.error with the exception message
\* (err) or the number (n) its f-string interpolates.
Info(text) == [level |-> "INFO", text |-> text, err |-> "", n |-> 0]
InfoN(text, n) == [level |-> "INFO", text |-> text, err |-> "", n |-> n]
Error(text, err) == [level |-> "ERROR", text |-> text, err |-> err, n |-> 0]

\* The observations of a call at its entry.  fault: the store call that
\* fails during this call ("none": none does); own: the call is to open its
\* own connection; conOpen: the connection it uses is open; opens, closes:
\* successful duckdb.connect and con.close() calls; closedNone: close() was
\* called on None; thrown: the exception raised inside the try body;
\* raised: the exception that leaves the function ("" when it returns);
\* returned: the value it returns.
Call(op, own, fault) ==
    [op |-> op, fault |-> fault, own |-> own, conOpen |-> ~own, opens |-> 0, closes |-> 0,
     closedNone |-> FALSE, log |-> <<>>, out |-> <<>>, thrown |-> "",
     raised |-> "", returned |-> "", count_before |-> 0]

Logged(o, rec) == [o EXCEPT !.log = Append(@, rec)]

\* duckdb.connect(...) succeeded.
Connected(o) == [o EXCEPT !.opens = @ + 1, !.conOpen = TRUE]

\* The message of the exception a failing store call raises.
StoreError(fault) ==
    CASE fault = "connect" -> "IO Error"
      [] fault = "schema"  -> "Schema Error"
      [] fault = "table"   -> "Table Error"
      [] fault = "count"   -> "Count Error"
      [] fault = "insert"  -> "Insert Error"
      [] fault = "create"  -> "View Error"
      [] OTHER             -> ""

(***************************************************************************)
(* ingest_votes.                                                           *)
(***************************************************************************)
\* Variant: the handler logs and re-raises.
IngestExceptReraising(o, e) ==
    [o EXCEPT !.thrown = e, !.raised = e,
              !.log = Append(@, [level |-> "ERROR", text |-> "Error during ingestion",
                                 err |-> e, n |-> 0])]

\* except Exception as e: logging.error(...); the exception is not re-raised.
IngestExcept(o, e) ==
    Logged([o EXCEPT !.thrown = e], Error("Error during ingestion", e))

\* Variant: the connection is closed at the end of the try body only.
IngestFinallyOnSuccess(o) ==
    LET done == [o EXCEPT !.returned = "None"]
    IN  IF o.opens > 0 /\ o.thrown = ""
        THEN [done EXCEPT !.closes = @ + 1, !.conOpen = FALSE,
                          !.log = Append(@, [level |-> "INFO", text |-> "Connection closed.",
                                             err |-> "", n |-> 0])]
        ELSE done

\* finally: if con: con.close(); then the function returns None.
IngestFinally(o) ==
    LET done == [o EXCEPT !.returned = "None"]
    IN  IF o.opens > 0
        THEN Logged([done EXCEPT !.closes = @ + 1, !.conOpen = FALSE],
                    Info("Connection closed."))
        ELSE done

\* The INSERT statement: it fails as a whole, inserting nothing, when a line
\* does not cast (or the store fails); otherwise it inserts the rows whose Id
\* is absent and returns their number.
InsertVotes(table, lines, fault) ==
    IF fault = "insert" THEN [err |-> StoreError(fault), table |-> table, count |-> 0]
    ELSE IF ~FileCasts(lines) THEN [err |-> "Conversion Error", table |-> table, count |-> 0]
    ELSE LET res == InsertOnConflictDoNothing([table |-> table, count |-> 0], lines)
         IN  [err |-> "", table |-> res.table, count |-> res.count]

\* From "Ingesting data from" to the print: count, insert, report.
IngestLoad(st, file, fault, o1) ==
    LET o2  == Logged(o1, Info("Ingesting data from"))
        o3  == [o2 EXCEPT !.count_before = RowCount(st.votes)]
        ins == InsertVotes(st.votes, file.lines, fault)
    IN  IF fault = "count"
        THEN [store |-> st, obs |-> IngestExcept(o2, StoreError(fault))]
        ELSE IF ins.err # ""
        THEN [store |-> st, obs |-> IngestExcept(o3, ins.err)]
        ELSE [store |-> [st EXCEPT !.votes = ins.table],
              obs   |-> [Logged(o3, InfoN("Inserted new records.", ins.count))
                            EXCEPT !.out = Append(@, [text |-> "Ingested new vote records.",
                                                      n |-> ins.count])]]

\* Variant: no check that the file exists; a missing file reads as no lines.
IngestBodyNoFileCheck(st, file, fault) ==
    LET o0  == Logged(Call("ingest_votes", TRUE, fault), Info("Connecting to DuckDB..."))
        o1  == Logged(Connected(o0), Info("Creating schema and table if they don't exist..."))
        st1 == [st EXCEPT !.schemaExists = TRUE]
        st2 == [st1 EXCEPT !.tableExists = TRUE]
    IN  IF fault = "connect"
        THEN [store |-> st, obs |-> IngestExcept(o0, StoreError(fault))]
        ELSE IF fault = "schema"
        THEN [store |-> st, obs |-> IngestExcept(o1, StoreError(fault))]
        ELSE IF fault = "table"
        THEN [store |-> st1, obs |-> IngestExcept(o1, StoreError(fault))]
        ELSE IngestLoad(st2, file, fault, o1)

\* The try body of ingest_votes: connect, create the schema and the table
\* if they do not exist, return early when the file is missing, else load.
IngestBody(st, file, fault) ==
    LET o0  == Logged(Call("ingest_votes", TRUE, fault), Info("Connecting to DuckDB..."))
        o1  == Logged(Connected(o0), Info("Creating schema and table if they don't exist..."))
        st1 == [st EXCEPT !.schemaExists = TRUE]
        st2 == [st1 EXCEPT !.tableExists = TRUE]
    IN  IF fault = "connect"
        THEN [store |-> st, obs |-> IngestExcept(o0, StoreError(fault))]
        ELSE IF fault = "schema"
        THEN [store |-> st, obs |-> IngestExcept(o1, StoreError(fault))]
        ELSE IF fault = "table"
        THEN [store |-> st1, obs |-> IngestExcept(o1, StoreError(fault))]
        ELSE IF ~file.exists
        THEN [store |-> st2, obs |-> Logged(o1, Error("Dataset not found", ""))]
        ELSE IngestLoad(st2, file, fault, o1)

IngestFaults == {"none", "connect", "schema", "table", "count", "insert"}

\* ingest_votes(): the whole call, under one outcome of the store calls.
IngestVotes ==
    \E fault \in IngestFaults :
        LET r == IngestBody(store, dataFile, fault)
            o == IngestFinally(r.obs)
        IN  /\ store' = r.store
            /\ last' = o
            /\ runs' = IF fault = "none" THEN (IF runs < 2 THEN runs + 1 ELSE 2) ELSE 0
            /\ UNCHANGED dataFile

(***************************************************************************)
(* calculate_outliers.                                                     *)
(***************************************************************************)
\* Variant: the handler logs and does not re-raise.
OutliersExceptSwallowing(o, e) ==
    Logged([o EXCEPT !.thrown = e], Error("Error creating outlier_weeks view", e))

\* except Exception as e: logging.error(...); raise.
OutliersExcept(o, e) ==
    Logged([o EXCEPT !.thrown = e, !.raised = e],
           Error("Error creating outlier_weeks view", e))

\* Variant: finally: if con: con.close(), whoever opened it.
OutliersFinallyAlwaysClosing(o) ==
    IF ~o.conOpen THEN [o EXCEPT !.returned = IF o.raised = "" THEN "None" ELSE ""]
    ELSE Logged([o EXCEPT !.closes = @ + 1, !.conOpen = FALSE,
                          !.returned = IF o.raised = "" THEN "None" ELSE ""],
                Info("Connection closed."))

\* finally: if own_connection: con.close().  When connect failed con is
\* still None, and con.close() raises AttributeError out of the finally.
OutliersFinally(o) ==
    IF ~o.own THEN [o EXCEPT !.returned = IF o.raised = "" THEN "None" ELSE ""]
    ELSE IF o.opens = 0
    THEN [o EXCEPT !.closedNone = TRUE, !.raised = "AttributeError"]
    ELSE Logged([o EXCEPT !.closes = @ + 1, !.conOpen = FALSE,
                          !.returned = IF o.raised = "" THEN "None" ELSE ""],
                Info("Connection closed."))

\* Variant: a view query that fails over a table with no rows.
CreateViewErrorOnNoRows(st, fault) ==
    IF fault = "create" THEN StoreError(fault)
    ELSE IF ~st.schemaExists \/ ~st.tableExists THEN "Catalog Error"
    ELSE IF st.votes = EmptyBag THEN "Out of Range Error"
    ELSE ""

\* The error of CREATE OR REPLACE VIEW, "" when it succeeds: the view's
\* query is bound when the view is created, so the schema and the votes
\* table must exist.
CreateViewError(st, fault) ==
    IF fault = "create" THEN StoreError(fault)
    ELSE IF ~st.schemaExists \/ ~st.tableExists THEN "Catalog Error"
    ELSE ""

\* The try body of calculate_outliers(con): connect when no connection was
\* supplied, create or replace the view, count its rows, report.
OutliersBody(st, supplied, fault) ==
    LET o0  == Logged(Call("calculate_outliers", ~supplied, fault), Info("Connecting to DuckDB..."))
        o1  == Logged(IF supplied THEN o0 ELSE Connected(o0),
                      Info("Creating outlier_weeks view..."))
        err == CreateViewError(st, fault)
        st1 == [st EXCEPT !.viewExists = TRUE]
        result == Len(OutlierWeeksQuery(st1.votes))
    IN  IF fault = "connect"
        THEN [store |-> st, obs |-> OutliersExcept(o0, StoreError(fault))]
        ELSE IF err # ""
        THEN [store |-> st, obs |-> OutliersExcept(o1, err)]
        ELSE IF fault = "count"
        THEN [store |-> st1, obs |-> OutliersExcept(o1, StoreError(fault))]
        ELSE [store |-> st1,
              obs   |-> [Logged(o1, InfoN("Created outlier_weeks view with rows", result))
                            EXCEPT !.out = Append(@, [text |-> "Created outlier_weeks view with outlier weeks detected",
                                                      n |-> result])]]

OutliersFaults == {"none", "connect", "create", "count"}

\* calculate_outliers(con): supplied says whether the caller passed an open
\* connection; the connect fault exists only when the call connects itself.
CalculateOutliers ==
    \E supplied \in BOOLEAN, fault \in OutliersFaults :
        /\ fault = "connect" => ~supplied
        /\ LET r == OutliersBody(store, supplied, fault)
           IN  /\ store' = r.store
               /\ last' = OutliersFinally(r.obs)
        /\ runs' = 0
        /\ UNCHANGED dataFile

(***************************************************************************)
(* The environment: the fetch step writes, extends or removes the file.    *)
(***************************************************************************)
NoCall == Call("none", FALSE, "none")

WriteDataFile ==
    /\ dataFile' = [exists |-> TRUE, lines |-> <<>>]
    /\ dataFile' # dataFile
    /\ runs' = 0
    /\ last' = NoCall
    /\ UNCHANGED store

AppendLine ==
    \E line \in Lines :
        /\ dataFile.exists
        /\ Len(dataFile.lines) < MaxFileLen
        /\ dataFile' = [dataFile EXCEPT !.lines = Append(@, line)]
        /\ runs' = 0
        /\ last' = NoCall
        /\ UNCHANGED store

RemoveDataFile ==
    /\ dataFile.exists
    /\ dataFile' = [exists |-> FALSE, lines |-> <<>>]
    /\ runs' = 0
    /\ last' = NoCall
    /\ UNCHANGED store

(***************************************************************************)
(* Specification: a new warehouse.db and no data file, then any calls.     *)
(***************************************************************************)
NewStore ==
    [schemaExists |-> FALSE, tableExists |-> FALSE, viewExists |-> FALSE,
     votes |-> EmptyBag]

Init ==
    /\ store = NewStore
    /\ dataFile = [exists |-> FALSE, lines |-> <<>>]
    /\ last = NoCall
    /\ runs = 0

Next ==
    \/ IngestVotes
    \/ CalculateOutliers
    \/ WriteDataFile
    \/ AppendLine
    \/ RemoveDataFile

Spec == Init /\ [][Next]_vars

(***************************************************************************)
(* Specification for the view's arithmetic: the votes table already holds  *)
(* three weeks of votes (the weeks of 2022-01-03, -10 and -17, ISO weeks   *)
(* 1 to 3 of 2022), each week with no vote or with a number of votes       *)
(* within WeekWindow of MaxWeekVotes; calculate_outliers is then called.   *)
(***************************************************************************)
WeekStarts == <<<<2022, 1, 3>>, <<2022, 1, 10>>, <<2022, 1, 17>>>>

WeekCounts == {0} \cup ((MaxWeekVotes - WeekWindow)..MaxWeekVotes)

\* The table after ingesting counts[i] votes cast in week i, each with its own Id.
VotesOfWeeks(counts) ==
    SetToBag({[Id |-> (i - 1) * MaxWeekVotes + j, PostId |-> 1, VoteTypeId |-> 2,
               CreationDate |-> DaysFromCivil(WeekStarts[i])] :
                  <<i, j>> \in {ij \in (1..Len(WeekStarts)) \X (1..MaxWeekVotes) :
                                   ij[2] <= counts[ij[1]]}})

InitOutliers ==
    /\ \E counts \in [1..Len(WeekStarts) -> WeekCounts] :
           store = [schemaExists |-> TRUE, tableExists |-> TRUE, viewExists |-> FALSE,
                    votes |-> VotesOfWeeks(counts)]
    /\ dataFile = [exists |-> FALSE, lines |-> <<>>]
    /\ last = NoCall
    /\ runs = 0

NextOutliers == CalculateOutliers

SpecOutliers == InitOutliers /\ [][NextOutliers]_vars

(***************************************************************************)
(* Specification for the view's buckets and order around the turn of a     *)
(* year: the votes table already holds up to MaxDayVotes votes on each of  *)
(* five days, and calculate_outliers is then called.                       *)
(*   2021-12-27, a Monday,   ISO week 52 of 2021                           *)
(*   2022-01-01, a Saturday, ISO week 52 of 2021                           *)
(*   2022-01-03, a Monday,   ISO week 1 of 2022                            *)
(*   2022-12-31, a Saturday, ISO week 52 of 2022                           *)
(*   2023-01-01, a Sunday,   ISO week 52 of 2022                           *)
(***************************************************************************)
YearEndDays ==
    <<<<2021, 12, 27>>, <<2022, 1, 1>>, <<2022, 1, 3>>, <<2022, 12, 31>>, <<2023, 1, 1>>>>

\* The table after ingesting counts[i] votes cast on day i, each with its own Id.
VotesOfDays(counts) ==
    SetToBag({[Id |-> (ij[1] - 1) * MaxDayVotes + ij[2], PostId |-> 1, VoteTypeId |-> 2,
               CreationDate |-> DaysFromCivil(YearEndDays[ij[1]])] :
                  ij \in {x \in (1..Len(YearEndDays)) \X (1..MaxDayVotes) :
                             x[2] <= counts[x[1]]}})

InitYearEnds ==
    /\ \E counts \in [1..Len(YearEndDays) -> 0..MaxDayVotes] :
           store = [schemaExists |-> TRUE, tableExists |-> TRUE, viewExists |-> FALSE,
                    votes |-> VotesOfDays(counts)]
    /\ dataFile = [exists |-> FALSE, lines |-> <<>>]
    /\ last = NoCall
    /\ runs = 0

NextYearEnds == CalculateOutliers

SpecYearEnds == InitYearEnds /\ [][NextYearEnds]_vars

(***************************************************************************)
(* Properties.                                                             *)
(***************************************************************************)
\* A step of ingest_votes / of calculate_outliers: the environment's steps
\* all change dataFile, the calls never do.
IngestStep == last'.op = "ingest_votes" /\ dataFile' = dataFile
OutliersStep == last'.op = "calculate_outliers" /\ dataFile' = dataFile

ErrorsLogged(o) == SelectSeq(o.log, LAMBDA r : r.level = "ERROR")
TimesLogged(o, text) == Len(SelectSeq(o.log, LAMBDA r : r.text = text))
RowsWithId(table, id) == RowCount([r \in {x \in BagToSet(table) : x.Id = id} |-> table[r]])
StoredIds(table) == {r.Id : r \in BagToSet(table)}

\* C1: over every step, each row of votes is still there with the same PostId,
\* VoteTypeId and CreationDate, votes holds at most one row per Id, and an
\* ingest of a readable file whose store calls succeed raises no error, also
\* when the file holds Ids that are already stored.
C1_RowsKeptOnePerId ==
    [][/\ \A r \in BagToSet(store.votes) : r \in BagToSet(store'.votes)
       /\ \A id \in StoredIds(store'.votes) : RowsWithId(store'.votes, id) = 1
       /\ (IngestStep /\ last'.fault = "none" /\ dataFile.exists /\ FileCasts(dataFile.lines))
             => last'.thrown = ""]_vars

\* An ingest, with no error, of a file that carries the stored Id 1 with
\* other fields: the row of Id 1 is the one stored first.
C1_Witness ==
    /\ last.op = "ingest_votes" /\ last.thrown = "" /\ runs > 0
    /\ \E i \in 1..Len(dataFile.lines) : dataFile.lines[i] = RevisedLine
    /\ \E r \in BagToSet(store.votes) : r.Id = 1 /\ r.PostId = 1
    /\ last.count_before > 0

\* C2: a second (or later) run of ingest_votes in a row on the unchanged
\* file leaves votes as the run before left it, and what it reports is 0.
C2_SecondRunInsertsNothing ==
    [][(runs' = 2) => /\ store'.votes = store.votes
                      /\ last'.out # <<>> => last'.out[1].n = 0]_vars

\* A second run on a file with lines, after a first run that inserted some.
C2_Witness ==
    /\ runs = 2
    /\ dataFile.lines # <<>>
    /\ last.out # <<>> /\ last.out[1].n = 0
    /\ RowCount(store.votes) > 0

\* C3: the count a successful ingest_votes logs and prints is the row count
\* of votes after the call minus the row count before it.
C3_ReportedCountIsRowsAdded ==
    (last.op = "ingest_votes" /\ last.out # <<>>) =>
        /\ last.out[1].n = RowCount(store.votes) - last.count_before
        /\ \E i \in 1..Len(last.log) :
               last.log[i] = InfoN("Inserted new records.", last.out[1].n)

\* The table held one row, the file holds two lines, the report is 1.
C3_Witness ==
    /\ last.op = "ingest_votes" /\ runs = 1
    /\ last.count_before = 1
    /\ Len(dataFile.lines) = 2
    /\ last.out # <<>> /\ last.out[1].n = 1

\* Whether a count c deviates from the mean of the counts of weekly by more
\* than 20%, in exact arithmetic: |1 - c / (S / n)| > 1/5 with S the sum and
\* n the number of the counts, which is 5 * |S - c * n| > S.
DeviatesByMoreThanFifth(c, weekly) ==
    LET S == SumVoteCount(weekly)
        d == S - c * Cardinality(weekly)
    IN  5 * (IF d < 0 THEN -d ELSE d) > S

\* C4: whenever the view exists over a non-empty votes table, its rows are
\* exactly the weekly buckets whose count deviates from the mean of all the
\* weekly counts by more than 20%; a bucket deviating by exactly 20% is no row.
C4_ViewRowsDeviateByMoreThanFifth ==
    (store.viewExists /\ store.votes # EmptyBag) =>
        LET rows == OutlierWeeksQuery(store.votes)
            weekly == WeeklyVotes(store.votes)
        IN  {rows[i] : i \in 1..Len(rows)} =
                {w \in weekly : DeviatesByMoreThanFifth(w.VoteCount, weekly)}

\* C5 as stated: with no source file, ingest_votes leaves the store exactly
\* as it was, logs "Dataset not found" once and returns without raising.
C5_MissingFileStoreUntouched ==
    [][(IngestStep /\ ~dataFile.exists) =>
          /\ store' = store
          /\ TimesLogged(last', "Dataset not found") = 1
          /\ last'.raised = "" /\ last'.returned = "None"]_vars

\* C5: with no source file, when connecting and the schema and table setup
\* succeed, ingest_votes leaves the rows of votes and the view as they were,
\* the schema and the votes table exist afterwards (created if they did not),
\* "Dataset not found" is logged once and is the only error logged, and the
\* call returns without raising.
C5_MissingFileRowsUntouched ==
    [][(IngestStep /\ ~dataFile.exists /\ last'.fault \notin {"connect", "schema", "table"}) =>
          /\ store' = [store EXCEPT !.schemaExists = TRUE, !.tableExists = TRUE]
          /\ ErrorsLogged(last') = <<Error("Dataset not found", "")>>
          /\ last'.raised = "" /\ last'.returned = "None"]_vars

\* An ingest with no file over a table that holds rows.
C5_Witness ==
    /\ last.op = "ingest_votes" /\ ~dataFile.exists
    /\ TimesLogged(last, "Dataset not found") = 1
    /\ RowCount(store.votes) > 0

\* C6: an ingest_votes call that opened the connection has closed it exactly
\* once when it returns, on every path; one that did not open it closes nothing.
C6_IngestClosesWhatItOpened ==
    last.op = "ingest_votes" =>
        /\ last.returned = "None"
        /\ last.opens = 1 => (last.closes = 1 /\ ~last.conOpen)
        /\ last.opens = 0 => last.closes = 0

\* The connection opened, the INSERT failed, the connection closed.
C6_Witness ==
    /\ last.op = "ingest_votes" /\ last.thrown = StoreError("insert")
    /\ last.opens = 1 /\ last.closes = 1

\* C7: calculate_outliers closes the connection exactly when it opened it:
\* a supplied connection is never closed and is open after the call, on
\* success and on failure; an own connection that opened is closed.
C7_OutliersClosesOnlyOwnConnection ==
    last.op = "calculate_outliers" =>
        /\ ~last.own => (last.opens = 0 /\ last.closes = 0 /\ last.conOpen)
        /\ last.own => (last.closes = last.opens /\ ~last.conOpen)

\* View creation failed on a supplied connection, which is still open.
C7_Witness ==
    /\ last.op = "calculate_outliers" /\ ~last.own
    /\ last.thrown = StoreError("create")
    /\ last.conOpen

\* C8: ingest_votes never raises and returns None; an error in its try body
\* is logged once, as "Error during ingestion" with the error's message,
\* and every failing store call is such an error.
C8_IngestCatchesAndLogs ==
    last.op = "ingest_votes" =>
        /\ last.raised = "" /\ last.returned = "None"
        /\ last.thrown # "" =>
               ErrorsLogged(last) = <<Error("Error during ingestion", last.thrown)>>
        /\ last.fault \in {"connect", "schema", "table"} => last.thrown = StoreError(last.fault)

\* A line of the file did not cast: reading the file failed.
C8_Witness ==
    /\ last.op = "ingest_votes" /\ last.thrown = "Conversion Error"
    /\ last.closes = 1

\* C9: an error while calculate_outliers creates the view or counts its rows
\* is logged as "Error creating outlier_weeks view" with its message and the
\* same error leaves the call, which returns nothing.
C9_OutliersLogsAndReraises ==
    (last.op = "calculate_outliers" /\ last.thrown \notin {"", StoreError("connect")}) =>
        /\ ErrorsLogged(last) = <<Error("Error creating outlier_weeks view", last.thrown)>>
        /\ last.raised = last.thrown
        /\ last.returned = ""

\* Counting the rows of the created view failed.
C9_Witness ==
    /\ last.op = "calculate_outliers" /\ last.thrown = StoreError("count")
    /\ last.raised = StoreError("count") /\ store.viewExists

\* C10: after calculate_outliers over an existing, empty votes table, with
\* no store failure: no error, the view exists, it has no rows, 0 is reported.
C10_EmptyTableGivesEmptyView ==
    (/\ last.op = "calculate_outliers" /\ last.fault = "none"
     /\ store.schemaExists /\ store.tableExists /\ store.votes = EmptyBag) =>
        /\ last.thrown = "" /\ last.raised = "" /\ last.returned = "None"
        /\ store.viewExists
        /\ OutlierWeeksQuery(store.votes) = <<>>
        /\ AverageVotes(WeeklyVotes(store.votes)).isNull
        /\ last.out # <<>> /\ last.out[1].n = 0

C10_Witness ==
    /\ last.op = "calculate_outliers" /\ last.fault = "none"
    /\ store.tableExists /\ store.votes = EmptyBag
    /\ store.viewExists /\ last.out # <<>>

\* C11: the rows of outlier_weeks are in strictly increasing order of
\* (Year, WeekNumber): each row has a greater Year than the row before it,
\* or the same Year and a greater WeekNumber, so no pair appears twice.
C11_RowsStrictlyIncreasing ==
    (store.schemaExists /\ store.tableExists) =>
        LET rows == OutlierWeeksQuery(store.votes)
        IN  \A i \in 1..(Len(rows) - 1) :
                \/ rows[i + 1].Year > rows[i].Year
                \/ /\ rows[i + 1].Year = rows[i].Year
                   /\ rows[i + 1].WeekNumber > rows[i].WeekNumber

\* The created view has three rows, of two years, while the votes of
\* (2022, 52) were stored before those of (2022, 1).
C11_Witness ==
    /\ store.viewExists /\ last.op = "calculate_outliers" /\ last.thrown = ""
    /\ Len(OutlierWeeksQuery(store.votes)) = 3
    /\ last.out # <<>> /\ last.out[1].n = 3
    /\ \E r \in BagToSet(store.votes) : WeekKey(r) = <<2022, 1>>
    /\ \E r \in BagToSet(store.votes) : WeekKey(r) = <<2021, 52>>

\* Whether call o returned the value v to its caller: a call that raises
\* returns nothing (""), and "None" is the value of a call with no return.
ReturnsValue(o, v) == o.returned \notin {"", "None"} /\ o.returned = v

\* C12: a successful ingest_votes returns to its caller the count of rows
\* it inserted, the number it logs and prints.
C12_IngestReturnsInsertedCount ==
    (last.op = "ingest_votes" /\ last.thrown = "" /\ last.out # <<>>) =>
        ReturnsValue(last, last.out[1].n)

\* C13: when calculate_outliers opens its own connection and connecting
\* fails, the connection error is logged and is the error that leaves the
\* call, and close() is not called on a connection that was never opened.
C13_ConnectErrorReachesCaller ==
    (last.op = "calculate_outliers" /\ last.own /\ last.fault = "connect") =>
        /\ ErrorsLogged(last) =
               <<Error("Error creating outlier_weeks view", StoreError("connect"))>>
        /\ last.raised = StoreError("connect")
        /\ ~last.closedNone

\* The Monday that starts the ISO week of a day number (day 0 is a Thursday).
MondayOf(ts) == ts - ((ts + 3) % 7)

\* C14: when the view exists, two votes are in the same (Year, WeekNumber)
\* bucket exactly when their CreationDates are in the same Monday-to-Sunday
\* ISO week, and each bucket counts the votes of one such week.
C14_BucketsAreIsoWeeks ==
    store.viewExists =>
        /\ \A r1, r2 \in BagToSet(store.votes) :
               (WeekKey(r1) = WeekKey(r2)) <=>
                   (MondayOf(r1.CreationDate) = MondayOf(r2.CreationDate))
        /\ \A w \in WeeklyVotes(store.votes) :
               \E r \in BagToSet(store.votes) :
                   /\ WeekKey(r) = <<w.Year, w.WeekNumber>>
                   /\ w.VoteCount =
                          RowCount([x \in {y \in BagToSet(store.votes) :
                                              MondayOf(y.CreationDate) = MondayOf(r.CreationDate)}
                                       |-> store.votes[x]])

====
